---- MODULE Spec2Model ----
(***************************************************************************)
(* Model of package strutil (src/strutil/string.go).                       *)
(*                                                                         *)
(* A Go string is modelled as what it is: a sequence of bytes (naturals    *)
(* below 256).  len(s) is the number of bytes, s[a:b] slices by byte       *)
(* offsets, strings.Index searches bytes, `range s` and                    *)
(* utf8.DecodeRuneInString decode UTF-8 and string([]rune) encodes it.     *)
(* The functions of the package are pure: each becomes an operator that    *)
(* computes its result the way the Go code does, and one action per public *)
(* function applies it to the inputs drawn by Init.                        *)
(***************************************************************************)
EXTENDS Integers, Sequences, FiniteSets, TLC

VARIABLES
    op,        \* the function that has been called ("none" before the call)
    s,         \* first argument (s / str)
    sep,       \* second argument (sep / char / wrapToken)
    rm,        \* SplitEx's removeEmptyString
    out,       \* the value returned (meaningless when panicked)
    panicked   \* the call ended in a run-time panic (slice bounds out of range)

vars == <<op, s, sep, rm, out, panicked>>

(***************************************************************************)
(* Bounds of the inputs, in code points.                                   *)
(***************************************************************************)
MaxLen == 5
MaxSepLen == 2

\* Code points of the inputs of the delimiter functions: ',' 'a' and the
\* two-byte 'e-acute' (U+00E9).
DelimAlphabet == {44, 97, 233}

\* Code points of the inputs of the word functions: ' - 1 A a and U+00E9.
WordAlphabet == {39, 45, 49, 65, 97, 233}

Min(S) == CHOOSE x \in S : \A y \in S : x <= y
Max(S) == CHOOSE x \in S : \A y \in S : x >= y

(***************************************************************************)
(* Go run-time and standard library, as far as the package uses them.      *)
(***************************************************************************)

\* The outcome of a string expression that panics.  No string holds -1.  A
\* function returning a slice of strings that panics yields <<PANIC>>.
PANIC == <<-1>>

\* s[a:b]: panics unless 0 <= a <= b <= len(s).
Slice(str, a, b) ==
    IF 0 <= a /\ a <= b /\ b <= Len(str) THEN SubSeq(str, a + 1, b) ELSE PANIC

\* s[a:]
SliceFrom(str, a) == Slice(str, a, Len(str))

\* make([]T, n): n zero values.
RECURSIVE MakeSlice(_, _)
MakeSlice(n, zero) == IF n <= 0 THEN <<>> ELSE Append(MakeSlice(n - 1, zero), zero)

\* a[i] = v for an index i (from 0) inside the array.
Store(a, i, v) == SubSeq(a, 1, i) \o <<v>> \o SubSeq(a, i + 2, Len(a))

\* utf8.RuneError
RuneError == 65533

\* string(r) for a rune r / the bytes string([]rune) writes for one rune.
EncodeRune(r) ==
    IF r < 128 THEN <<r>>
    ELSE IF r < 2048 THEN <<192 + (r \div 64), 128 + (r % 64)>>
    ELSE <<224 + (r \div 4096), 128 + ((r \div 64) % 64), 128 + (r % 64)>>

\* string(runes) for a []rune.
RECURSIVE RunesToString(_)
RunesToString(runes) ==
    IF Len(runes) = 0 THEN <<>>
    ELSE EncodeRune(Head(runes)) \o RunesToString(Tail(runes))

\* utf8.DecodeRuneInString: <<rune, size>>; one-, two- and three-byte forms,
\* anything else is (RuneError, 1).
DecodeRuneInString(str) ==
    IF Len(str) = 0 THEN <<RuneError, 0>>
    ELSE IF str[1] < 128 THEN <<str[1], 1>>
    ELSE IF /\ str[1] \in 194..223
            /\ Len(str) >= 2
            /\ str[2] \in 128..191
         THEN <<(str[1] - 192) * 64 + (str[2] - 128), 2>>
    ELSE IF /\ str[1] \in 224..239
            /\ Len(str) >= 3
            /\ str[2] \in 128..191
            /\ str[3] \in 128..191
         THEN <<(str[1] - 224) * 4096 + (str[2] - 128) * 64 + (str[3] - 128), 3>>
    ELSE <<RuneError, 1>>

\* `for i, v := range str`: the sequence of <<byte index, rune>> pairs, the
\* first index being base.
RECURSIVE RangeString(_, _)
RangeString(str, base) ==
    IF Len(str) = 0 THEN <<>>
    ELSE LET d == DecodeRuneInString(str)
         IN  <<(<<base, d[1]>>)>> \o RangeString(SubSeq(str, d[2] + 1, Len(str)), base + d[2])

\* []rune(str)
RECURSIVE Runes(_)
Runes(str) ==
    IF Len(str) = 0 THEN <<>>
    ELSE LET d == DecodeRuneInString(str)
         IN  <<d[1]>> \o Runes(SubSeq(str, d[2] + 1, Len(str)))


\* unicode.ToUpper, on ASCII and Latin-1.
ToUpper(r) ==
    IF r \in 97..122 \/ r \in (224..254 \ {247}) THEN r - 32 ELSE r

\* unicode.ToLower, on ASCII and Latin-1.
ToLower(r) ==
    IF r \in 65..90 \/ r \in (192..222 \ {215}) THEN r + 32 ELSE r

\* strings.ToLower
RECURSIVE StringsToLower(_)
StringsToLower(str) ==
    IF Len(str) = 0 THEN <<>>
    ELSE LET d == DecodeRuneInString(str)
         IN  EncodeRune(ToLower(d[1])) \o StringsToLower(SubSeq(str, d[2] + 1, Len(str)))

\* strings.ToUpper
RECURSIVE StringsToUpper(_)
StringsToUpper(str) ==
    IF Len(str) = 0 THEN <<>>
    ELSE LET d == DecodeRuneInString(str)
         IN  EncodeRune(ToUpper(d[1])) \o StringsToUpper(SubSeq(str, d[2] + 1, Len(str)))

\* strings.Index: byte offset of the first occurrence, -1 if there is none.
Index(str, substr) ==
    LET M == {i \in 0..(Len(str) - Len(substr)) :
                 SubSeq(str, i + 1, i + Len(substr)) = substr}
    IN  IF M = {} THEN -1 ELSE Min(M)

\* strings.LastIndex: byte offset of the last occurrence, -1 if there is none.
LastIndex(str, substr) ==
    LET M == {i \in 0..(Len(str) - Len(substr)) :
                 SubSeq(str, i + 1, i + Len(substr)) = substr}
    IN  IF M = {} THEN -1 ELSE Max(M)

\* strings.Count: non-overlapping occurrences, counted from the left.
RECURSIVE Count(_, _)
Count(str, substr) ==
    IF Len(substr) = 0 THEN Len(Runes(str)) + 1
    ELSE LET i == Index(str, substr)
         IN  IF i < 0 THEN 0
             ELSE 1 + Count(SubSeq(str, i + Len(substr) + 1, Len(str)), substr)

(***************************************************************************)
(* Helpers of the package that string.go calls and does not define.        *)
(***************************************************************************)

\* isLetter: the Letter class of the character classifier.
isLetter(r) ==
    r \in 65..90 \/ r \in 97..122 \/ r \in (192..255 \ {215, 247})

\* The character classifier: Letter, Digit or Other.
classify(r) ==
    IF isLetter(r) THEN "Letter" ELSE IF r \in 48..57 THEN "Digit" ELSE "Other"

\* The word tokenizer over runes: cur is the open token (<<>> if none).
RECURSIVE tokenize(_, _, _)
tokenize(runes, cur, tokens) ==
    LET closed == IF cur = <<>> THEN tokens ELSE Append(tokens, cur)
    IN  IF Len(runes) = 0 THEN closed
        ELSE LET r == Head(runes)
             IN  IF classify(r) = "Other" THEN tokenize(Tail(runes), <<>>, closed)
                 ELSE IF cur = <<>> \/ classify(cur[1]) # classify(r)
                      THEN tokenize(Tail(runes), <<r>>, closed)
                      ELSE tokenize(Tail(runes), Append(cur, r), tokens)

\* The tokens as strings, upper- or lower-cased.
RECURSIVE caseTokens(_, _)
caseTokens(toks, upperCase) ==
    IF Len(toks) = 0 THEN <<>>
    ELSE <<IF upperCase THEN StringsToUpper(RunesToString(Head(toks)))
           ELSE StringsToLower(RunesToString(Head(toks)))>>
         \o caseTokens(Tail(toks), upperCase)

\* splitIntoStrings(s, upperCase): the tokens of s, upper- or lower-cased.
splitIntoStrings(str, upperCase) ==
    caseTokens(tokenize(Runes(str), <<>>, <<>>), upperCase)

(***************************************************************************)
(* The functions of string.go.                                             *)
(***************************************************************************)

\* Capitalize, the loop: pairs are the <<i, v>> of `range s` still to visit.
RECURSIVE CapitalizeLoop(_, _)
CapitalizeLoop(pairs, result) ==
    IF Len(pairs) = 0 THEN result
    ELSE LET i == pairs[1][1]
             v == pairs[1][2]
         IN  CapitalizeLoop(Tail(pairs),
                 Store(result, i, IF i = 0 THEN ToUpper(v) ELSE ToLower(v)))

\* Capitalize: result has len(s) runes (len counts bytes), all zero at first.
Capitalize(str) ==
    RunesToString(CapitalizeLoop(RangeString(str, 0), MakeSlice(Len(str), 0)))

\* CamelCase, the loop over strs from index i (0-based) on.
RECURSIVE CamelCaseLoop(_, _, _)
CamelCaseLoop(strs, i, builder) ==
    IF i >= Len(strs) THEN builder
    ELSE CamelCaseLoop(strs, i + 1,
             builder \o (IF i = 0 THEN StringsToLower(strs[i + 1])
                         ELSE Capitalize(strs[i + 1])))

CamelCase(str) == CamelCaseLoop(splitIntoStrings(str, FALSE), 0, <<>>)

Before(str, char) ==
    IF str = <<>> \/ char = <<>> THEN str
    ELSE LET i == Index(str, char) IN Slice(str, 0, i)

BeforeLast(str, char) ==
    IF str = <<>> \/ char = <<>> THEN str
    ELSE LET i == LastIndex(str, char) IN Slice(str, 0, i)

\* After with a fault, for C8: the slice starts at the delimiter, not past it.
AfterNoSkip(str, char) ==
    IF str = <<>> \/ char = <<>> THEN str
    ELSE LET i == Index(str, char) IN SliceFrom(str, i)

After(str, char) ==
    IF str = <<>> \/ char = <<>> THEN str
    ELSE LET i == Index(str, char) IN SliceFrom(str, i + Len(char))

AfterLast(str, char) ==
    IF str = <<>> \/ char = <<>> THEN str
    ELSE LET i == LastIndex(str, char) IN SliceFrom(str, i + Len(char))

\* Wrap with a fault, for C7: the trailing token is not written.
WrapNoTail(str, wrapWith) ==
    IF str = <<>> \/ wrapWith = <<>> THEN str
    ELSE wrapWith \o str

Wrap(str, wrapWith) ==
    IF str = <<>> \/ wrapWith = <<>> THEN str
    ELSE wrapWith \o str \o wrapWith

\* Unwrap with a fault, for C10: the slice starts at firstIndex.
UnwrapFromFirst(str, wrapToken) ==
    IF str = <<>> \/ wrapToken = <<>> THEN str
    ELSE LET firstIndex == Index(str, wrapToken)
             lastIndex == LastIndex(str, wrapToken)
         IN  IF /\ firstIndex = 0 /\ lastIndex > 0 /\ lastIndex <= Len(str) - 1
                /\ Len(wrapToken) <= lastIndex
             THEN Slice(str, firstIndex, lastIndex)
             ELSE str

Unwrap(str, wrapToken) ==
    IF str = <<>> \/ wrapToken = <<>> THEN str
    ELSE LET firstIndex == Index(str, wrapToken)
             lastIndex == LastIndex(str, wrapToken)
         IN  IF /\ firstIndex = 0 /\ lastIndex > 0 /\ lastIndex <= Len(str) - 1
                /\ Len(wrapToken) <= lastIndex
             THEN Slice(str, Len(wrapToken), lastIndex)
             ELSE str

\* SplitEx's sepSave, never assigned after its declaration.
sepSave == 0

\* SplitExStep with a fault, for C1: an ignored segment still advances i.
SplitExStepCounted(str, sp, removeEmptyString, a, i, m) ==
    LET seg == Slice(str, 0, m + sepSave)
    IN  IF i >= Len(a) /\ ~(removeEmptyString /\ seg = <<>>) THEN <<PANIC, a, i>>
        ELSE <<SliceFrom(str, m + Len(sp)),
               IF removeEmptyString /\ seg = <<>> THEN a ELSE Store(a, i, seg),
               i + 1>>

\* SplitEx, one pass of the loop body with m >= 0: <<s, a, i>> afterwards.
\* A write to a[i] with i outside the array panics: <<PANIC, a, i>>.
SplitExStep(str, sp, removeEmptyString, a, i, m) ==
    LET seg == Slice(str, 0, m + sepSave)
        ignore == removeEmptyString /\ seg = <<>>
    IN  IF ~ignore
        THEN IF i >= Len(a) THEN <<PANIC, a, i>>
             ELSE <<SliceFrom(str, m + Len(sp)), Store(a, i, seg), i + 1>>
        ELSE <<SliceFrom(str, m + Len(sp)), a, i>>

\* SplitEx, the loop `for i < n`: <<s, a, i>> at its exit.
RECURSIVE SplitExLoop(_, _, _, _, _, _)
SplitExLoop(str, sp, removeEmptyString, a, i, n) ==
    IF ~(i < n) THEN <<str, a, i>>
    ELSE LET m == Index(str, sp)
         IN  IF m < 0 THEN <<str, a, i>>
             ELSE LET nx == SplitExStep(str, sp, removeEmptyString, a, i, m)
                  IN  IF nx[1] = PANIC THEN nx
                      ELSE SplitExLoop(nx[1], sp, removeEmptyString, nx[2], nx[3], n)

SplitEx(str, sp, removeEmptyString) ==
    IF sp = <<>> THEN <<>>
    ELSE LET n == Count(str, sp) + 1
             a == MakeSlice(n, <<>>)
             L == SplitExLoop(str, sp, removeEmptyString, a, 0, n - 1)
         IN  IF L[1] = PANIC THEN <<PANIC>>
             ELSE LET rest == L[1]
                      i == L[3]
                      withRest == IF i >= n THEN <<PANIC>>
                                  ELSE SubSeq(Store(L[2], i, rest), 1, i + 1)
                  IN  IF removeEmptyString
                      THEN IF rest # <<>> THEN withRest ELSE SubSeq(L[2], 1, i)
                      ELSE withRest

\* SplitWordsStep with a fault, for C6: ' and - open a word as letters do.
SplitWordsStepAnyStart(str, isWord, word, pos, words, r) ==
    IF isLetter(r) \/ r = 39 \/ r = 45
    THEN IF ~isWord THEN <<TRUE, str, 0, words>> ELSE <<isWord, word, pos, words>>
    ELSE IF isWord THEN <<FALSE, word, pos, Append(words, Slice(word, 0, pos))>>
         ELSE <<isWord, word, pos, words>>

\* SplitWords, the switch for rune r at the head of str:
\* <<isWord, word, pos, words>> before `pos += size`.
SplitWordsStep(str, isWord, word, pos, words, r) ==
    IF isLetter(r)
    THEN IF ~isWord THEN <<TRUE, str, 0, words>> ELSE <<isWord, word, pos, words>>
    ELSE IF isWord /\ (r = 39 \/ r = 45) THEN <<isWord, word, pos, words>>
    ELSE IF isWord THEN <<FALSE, word, pos, Append(words, Slice(word, 0, pos))>>
         ELSE <<isWord, word, pos, words>>

\* SplitWords, the loop `for len(s) > 0` and the statement after it.
RECURSIVE SplitWordsLoop(_, _, _, _, _)
SplitWordsLoop(str, isWord, word, pos, words) ==
    IF Len(str) = 0
    THEN IF isWord THEN Append(words, Slice(word, 0, pos)) ELSE words
    ELSE LET d == DecodeRuneInString(str)
             nx == SplitWordsStep(str, isWord, word, pos, words, d[1])
         IN  SplitWordsLoop(SliceFrom(str, d[2]), nx[1], nx[2], nx[3] + d[2], nx[4])

SplitWords(str) == SplitWordsLoop(str, FALSE, <<>>, 0, <<>>)

\* WordCountStep with a fault, for C5: ' and - close the open word.
WordCountStepNoContinuation(isWord, count, r) ==
    IF isLetter(r)
    THEN IF ~isWord THEN <<TRUE, count + 1>> ELSE <<isWord, count>>
    ELSE <<FALSE, count>>

\* WordCount, the switch for rune r: <<isWord, count>> afterwards.
WordCountStep(isWord, count, r) ==
    IF isLetter(r)
    THEN IF ~isWord THEN <<TRUE, count + 1>> ELSE <<isWord, count>>
    ELSE IF isWord /\ (r = 39 \/ r = 45) THEN <<isWord, count>>
    ELSE <<FALSE, count>>

\* WordCount, the loop `for len(s) > 0`.
RECURSIVE WordCountLoop(_, _, _)
WordCountLoop(str, isWord, count) ==
    IF Len(str) = 0 THEN count
    ELSE LET d == DecodeRuneInString(str)
             nx == WordCountStep(isWord, count, d[1])
         IN  WordCountLoop(SliceFrom(str, d[2]), nx[1], nx[2])

WordCount(str) == WordCountLoop(str, FALSE, 0)

(***************************************************************************)
(* The state machine: Init draws the arguments, one action per function    *)
(* performs the call.                                                      *)
(***************************************************************************)

\* The strings of at most n code points over alphabet A, as code points.
RECURSIVE CodePointSeqs(_, _)
CodePointSeqs(A, n) ==
    IF n = 0 THEN {<<>>}
    ELSE LET P == CodePointSeqs(A, n - 1)
         IN  P \cup {Append(c, x) : c \in {q \in P : Len(q) = n - 1}, x \in A}

\* The UTF-8 strings of at most n code points over alphabet A.
Strings(A, n) == {RunesToString(c) : c \in CodePointSeqs(A, n)}

Init ==
    /\ op = "none"
    /\ rm = FALSE
    /\ out = <<>>
    /\ panicked = FALSE
    /\ \/ /\ s \in Strings(DelimAlphabet, MaxLen)
          /\ sep \in Strings(DelimAlphabet, MaxSepLen)
       \/ /\ s \in Strings(WordAlphabet, MaxLen)
          /\ sep = <<>>

\* A call of a function returning a string.
Call(name, result) ==
    /\ op = "none"
    /\ op' = name
    /\ panicked' = (result = PANIC)
    /\ out' = result
    /\ UNCHANGED <<s, sep>>

\* A call of a function returning a slice of strings.
CallList(name, result) ==
    /\ op = "none"
    /\ op' = name
    /\ panicked' = (\E k \in 1..Len(result) : result[k] = PANIC)
    /\ out' = result
    /\ UNCHANGED <<s, sep>>

DoCamelCase == Call("CamelCase", CamelCase(s)) /\ UNCHANGED rm
DoCapitalize == Call("Capitalize", Capitalize(s)) /\ UNCHANGED rm
DoBefore == Call("Before", Before(s, sep)) /\ UNCHANGED rm
DoBeforeLast == Call("BeforeLast", BeforeLast(s, sep)) /\ UNCHANGED rm
DoAfter == Call("After", After(s, sep)) /\ UNCHANGED rm
DoAfterLast == Call("AfterLast", AfterLast(s, sep)) /\ UNCHANGED rm
DoWrap == Call("Wrap", Wrap(s, sep)) /\ UNCHANGED rm
DoUnwrap == Call("Unwrap", Unwrap(s, sep)) /\ UNCHANGED rm
DoSplitEx == \E b \in BOOLEAN : CallList("SplitEx", SplitEx(s, sep, b)) /\ rm' = b
DoSplitWords == CallList("SplitWords", SplitWords(s)) /\ UNCHANGED rm

DoWordCount ==
    /\ op = "none"
    /\ op' = "WordCount"
    /\ panicked' = FALSE
    /\ out' = WordCount(s)
    /\ UNCHANGED <<s, sep, rm>>

Next ==
    \/ DoCamelCase
    \/ DoCapitalize
    \/ DoBefore
    \/ DoBeforeLast
    \/ DoAfter
    \/ DoAfterLast
    \/ DoWrap
    \/ DoUnwrap
    \/ DoSplitEx
    \/ DoSplitWords
    \/ DoWordCount

Spec == Init /\ [][Next]_vars

(***************************************************************************)
(* Vocabulary of the properties.                                           *)
(***************************************************************************)

\* sub occurs in str.
Contains(str, sub) == Index(str, sub) >= 0

HasPrefix(str, pre) == Len(pre) <= Len(str) /\ SubSeq(str, 1, Len(pre)) = pre

HasSuffix(str, suf) ==
    Len(suf) <= Len(str) /\ SubSeq(str, Len(str) - Len(suf) + 1, Len(str)) = suf

\* The strings of list joined with sp between them.
RECURSIVE Join(_, _)
Join(list, sp) ==
    IF Len(list) = 0 THEN <<>>
    ELSE IF Len(list) = 1 THEN list[1]
    ELSE list[1] \o sp \o Join(Tail(list), sp)

\* The strings of list, in order, without the empty ones.
RECURSIVE NonEmpty(_)
NonEmpty(list) ==
    IF Len(list) = 0 THEN <<>>
    ELSE (IF Head(list) = <<>> THEN <<>> ELSE <<Head(list)>>) \o NonEmpty(Tail(list))

\* The segments of str between successive non-overlapping occurrences of sp,
\* taken from the left.
RECURSIVE Segments(_, _)
Segments(str, sp) ==
    LET i == Index(str, sp)
    IN  IF i < 0 THEN <<str>>
        ELSE <<SubSeq(str, 1, i)>> \o Segments(SubSeq(str, i + Len(sp) + 1, Len(str)), sp)

\* segs splits str at occurrences of sp taken from the left: joined with sp
\* they give str back, the sp after each segment is the first occurrence in
\* what is left, and the last segment holds none.
IsLeftToRightSplit(segs, str, sp) ==
    /\ Len(segs) >= 1
    /\ Join(segs, sp) = str
    /\ \A k \in 1..(Len(segs) - 1) : Index(segs[k] \o sp, sp) = Len(segs[k])
    /\ ~Contains(segs[Len(segs)], sp)

\* A code point that continues an open word.
IsWordRune(r) == isLetter(r) \/ r = 39 \/ r = 45

\* runes[i..j] begins with a letter and continues through letters, ' and -.
IsWordAt(runes, i, j) ==
    /\ i <= j
    /\ isLetter(runes[i])
    /\ \A k \in (i + 1)..j : IsWordRune(runes[k])

\* runes[i..j] is such a substring and no longer one holds it.
IsMaximalWordAt(runes, i, j) ==
    /\ IsWordAt(runes, i, j)
    /\ j = Len(runes) \/ ~IsWordRune(runes[j + 1])
    /\ ~\E h \in 1..(i - 1) : IsWordAt(runes, h, j)

\* The spans <<i, j>> of a set of disjoint spans, from left to right.
RECURSIVE SpansInOrder(_)
SpansInOrder(S) ==
    IF S = {} THEN <<>>
    ELSE LET m == CHOOSE p \in S : \A q \in S : p[1] <= q[1]
         IN  <<m>> \o SpansInOrder(S \ {m})

\* The maximal words of str, from left to right, as strings.
RECURSIVE SpanStrings(_, _)
SpanStrings(runes, spans) ==
    IF Len(spans) = 0 THEN <<>>
    ELSE <<RunesToString(SubSeq(runes, spans[1][1], spans[1][2]))>>
         \o SpanStrings(runes, Tail(spans))

MaximalWords(str) ==
    LET runes == Runes(str)
        S == {p \in (1..Len(runes)) \X (1..Len(runes)) : IsMaximalWordAt(runes, p[1], p[2])}
    IN  SpanStrings(runes, SpansInOrder(S))

\* The runes with the first upper-cased and the others lower-cased.
RECURSIVE LowerAll(_)
LowerAll(runes) ==
    IF Len(runes) = 0 THEN <<>> ELSE <<ToLower(Head(runes))>> \o LowerAll(Tail(runes))

UpperThenLower(runes) ==
    IF Len(runes) = 0 THEN <<>> ELSE <<ToUpper(Head(runes))>> \o LowerAll(Tail(runes))

\* The tokens from the second on, each capitalized, concatenated.
RECURSIVE CapitalizedTail(_)
CapitalizedTail(toks) ==
    IF Len(toks) = 0 THEN <<>>
    ELSE UpperThenLower(Head(toks)) \o CapitalizedTail(Tail(toks))

\* The camel-case string of a token sequence, as runes.
CamelOfTokens(toks) ==
    IF Len(toks) = 0 THEN <<>>
    ELSE LowerAll(Head(toks)) \o CapitalizedTail(Tail(toks))

IsLowerLetter(r) == r \in 97..122 \/ r \in (223..255 \ {247})

DelimOps == {"Before", "BeforeLast", "After", "AfterLast"}

(***************************************************************************)
(* The claims.                                                             *)
(***************************************************************************)

\* C1: for a non-empty separator, SplitEx(s, sep, false) returns in order the
\* segments of s between successive non-overlapping left-to-right occurrences
\* of sep (occurrences + 1 of them, the empty ones and the final remainder
\* included), SplitEx(s, sep, true) returns the same sequence without its
\* empty segments, and no returned segment contains sep.
C1_SplitExSegments ==
    (op = "SplitEx" /\ sep # <<>>) =>
        /\ ~panicked
        /\ IsLeftToRightSplit(Segments(s, sep), s, sep)
        /\ \A k \in 1..Len(out) : ~Contains(out[k], sep)
        /\ ~rm => /\ out = Segments(s, sep)
                  /\ IsLeftToRightSplit(out, s, sep)
                  /\ Len(out) = Count(s, sep) + 1
        /\ rm => out = NonEmpty(Segments(s, sep))

\* C1, witness: a call with removeEmptyString that dropped an empty segment
\* and kept at least two others.
C1_Witness ==
    /\ op = "SplitEx" /\ rm /\ sep # <<>>
    /\ Len(out) >= 2
    /\ Len(out) < Len(Segments(s, sep))

\* C2: Before, BeforeLast, After and AfterLast never panic, whatever s and
\* delim are.
C2_DelimTotal == op \in DelimOps => ~panicked

\* C3: for a non-empty token, Unwrap removes one leading and one trailing
\* token when str starts and ends with token without overlap, and returns
\* str unchanged in every other case.
C3_UnwrapOnlyWrapped ==
    (op = "Unwrap" /\ sep # <<>>) =>
        out = IF HasPrefix(s, sep) /\ HasSuffix(s, sep) /\ Len(s) >= 2 * Len(sep)
              THEN SubSeq(s, Len(sep) + 1, Len(s) - Len(sep))
              ELSE s

\* C4: Capitalize(s) has the code points of s, the first upper-cased and the
\* others lower-cased, none added, dropped or replaced.
C4_CapitalizeCodePoints ==
    op = "Capitalize" => out = RunesToString(UpperThenLower(Runes(s)))

\* C5: WordCount(s) is the number of elements of SplitWords(s).
C5_WordCountIsLenSplitWords ==
    /\ op = "WordCount" => out = Len(SplitWords(s))
    /\ op = "SplitWords" => Len(out) = WordCount(s)

\* C5, witness: a count of two or more on a string holding ' or -.
C5_Witness ==
    /\ op = "WordCount"
    /\ out >= 2
    /\ \E k \in 1..Len(s) : s[k] \in {39, 45}

C7_WrapConcatenates == op = "Wrap" => out = sep \o s \o sep

\* C7, amended: Wrap(s, token) is token + s + token for every non-empty s
\* and every token, and Wrap("", token) is "".
C7_WrapConcatenatesNonEmpty ==
    op = "Wrap" => out = IF s = <<>> THEN <<>> ELSE sep \o s \o sep

\* C7, witness: a non-empty string wrapped with a non-empty token.
C7_Witness ==
    /\ op = "Wrap" /\ s # <<>> /\ sep # <<>>
    /\ Len(out) = Len(s) + 2 * Len(sep)

\* C8: when the non-empty delim occurs in the non-empty s, Before and After
\* are the parts around its first occurrence, BeforeLast and AfterLast the
\* parts around its last, so before + delim + after = s; when s or delim is
\* empty all four return s.
C8_BeforeDelimAfter ==
    /\ (op \in DelimOps /\ (s = <<>> \/ sep = <<>>)) => out = s
    /\ (op \in DelimOps /\ s # <<>> /\ sep # <<>> /\ Contains(s, sep)) =>
          /\ ~panicked
          /\ op = "Before" => /\ Len(out) = Index(s, sep)
                              /\ out \o sep \o After(s, sep) = s
          /\ op = "After" => /\ Len(Before(s, sep)) = Index(s, sep)
                             /\ Before(s, sep) \o sep \o out = s
          /\ op = "BeforeLast" => /\ Len(out) = LastIndex(s, sep)
                                  /\ out \o sep \o AfterLast(s, sep) = s
          /\ op = "AfterLast" => /\ Len(BeforeLast(s, sep)) = LastIndex(s, sep)
                                 /\ BeforeLast(s, sep) \o sep \o out = s

\* C8, witness: After called with a delim that occurs twice in s, the first
\* time not at its start.
C8_Witness ==
    /\ op = "After" /\ sep # <<>>
    /\ Index(s, sep) > 0
    /\ LastIndex(s, sep) > Index(s, sep)

\* C9: CamelCase(s) is the first token of s lower-cased followed by every
\* later token capitalized, "" for no token, and a non-empty result starts
\* with a lowercase letter or a digit.
C9_CamelCaseOfTokens ==
    op = "CamelCase" =>
        /\ out = RunesToString(CamelOfTokens(tokenize(Runes(s), <<>>, <<>>)))
        /\ out # <<>> =>
              LET r == DecodeRuneInString(out)[1]
              IN  IsLowerLetter(r) \/ r \in 48..57

\* C10: Unwrap(Wrap(s, token), token) = s for every non-empty s and token.
C10_UnwrapInvertsWrap ==
    (op = "Wrap" /\ s # <<>> /\ sep # <<>>) => Unwrap(out, sep) = s

\* C10, witness: Wrap called on a string that itself starts and ends with
\* the token.
C10_Witness ==
    /\ op = "Wrap" /\ sep # <<>>
    /\ Len(s) > Len(sep)
    /\ HasPrefix(s, sep) /\ HasSuffix(s, sep)

====
